---- MODULE Spec2Model ----
(***************************************************************************)
(* Model of inline_model_storms/trajectory_manipulations.py: the gap       *)
(* filler (fill_trajectory_gaps, fill_trajectory_gaps_new), the overlap    *)
(* detector (storms_overlap_in_time, storm_overlap_in_space) and the       *)
(* track-file merger (write_track_line,                                    *)
(* remove_duplicates_from_track_files).                                    *)
(*                                                                         *)
(* Numbers.  Longitudes and latitudes are exact rationals in units of one  *)
(* microdegree (1e-6 degree, the resolution of round(x, 6) and of the      *)
(* "{:.6f}" file format): [n |-> numerator, d |-> denominator], kept in    *)
(* lowest terms with d > 0.  Python's float arithmetic is idealised as     *)
(* exact rational arithmetic; round(x, 6) is rounding to the nearest       *)
(* integer number of microdegrees.  Scalar auxiliary variables are         *)
(* rationals in units of 1e-5 (the resolution of round(x, 5)).             *)
(* Strings of digits (str(year), zfill) are sequences of digits 0..9.      *)
(***************************************************************************)
EXTENDS Integers, Sequences, FiniteSets, TLC

VARIABLES
    \* gap filler
    storm,          \* the storm dictionary being assembled
    cube,           \* the data cube: [calendar, nx]
    call,           \* the filler call in progress: its arguments, the storm before it
    pc,             \* "idle" | "returned" | "raised" | "appended"
    \* overlap detector
    storms_p,       \* storms of the previous window
    storms_c,       \* storms of the current window
    tcall,          \* last storms_overlap_in_time call: [x, ys, result]
    scall,          \* last storm_overlap_in_space call: [c, ys, result]
    \* track-file merger
    storms_match,   \* the overlap records handed to the merger
    fs,             \* the file system: path -> file content (sequence of lines) or absent
    mpc             \* position of the window-pair pipeline

vars == <<storm, cube, call, pc, storms_p, storms_c, tcall, scall, storms_match, fs, mpc>>

gapVars == <<storm, cube, call, pc>>
overlapVars == <<storms_p, storms_c, tcall, scall>>
mergeVars == <<storms_match, fs, mpc>>

(***************************************************************************)
(* Bounds of the model.                                                    *)
(***************************************************************************)
MaxGap == 3          \* largest gap argument / gap_length tried
NX == 4              \* cube.shape[-1], the grid width of the modelled cube
ProfileLen == 2      \* entries of the profile auxiliary variable

(***************************************************************************)
(* Exact rational arithmetic (the idealisation of Python floats).          *)
(***************************************************************************)
Abs(a) == IF a < 0 THEN -a ELSE a

RECURSIVE Gcd(_, _)
Gcd(a, b) == IF b = 0 THEN a ELSE Gcd(b, a % b)

\* n/d in lowest terms with a positive denominator (d # 0).
Rat(n, d) ==
    LET s == IF d < 0 THEN -1 ELSE 1
        g == Gcd(Abs(n), Abs(d))
    IN  [n |-> (s * n) \div g, d |-> (s * d) \div g]

RatInt(k) == [n |-> k, d |-> 1]

Lcm(a, b) == (a \div Gcd(a, b)) * b

RatAdd(x, y) ==
    LET l == Lcm(x.d, y.d)
    IN  Rat(x.n * (l \div x.d) + y.n * (l \div y.d), l)

RatSub(x, y) == RatAdd(x, [n |-> -y.n, d |-> y.d])

\* x / k for an integer k # 0
RatDivInt(x, k) == Rat(x.n, x.d * k)

\* Python's x % m for a positive integer m: the result is in [0, m)
RatMod(x, m) == Rat(x.n % (m * x.d), x.d)

RatLt(x, y) == x.n * y.d < y.n * x.d

RatAbs(x) == [n |-> Abs(x.n), d |-> x.d]

\* int(x): truncation towards zero
RatTrunc(x) == IF x.n >= 0 THEN x.n \div x.d ELSE -((-x.n) \div x.d)

\* round(x): nearest integer, ties to even
RatRound(x) ==
    LET q == x.n \div x.d
        r == x.n % x.d
    IN  IF 2 * r < x.d THEN q
        ELSE IF 2 * r > x.d THEN q + 1
        ELSE IF q % 2 = 0 THEN q ELSE q + 1

Last(s) == s[Len(s)]

(***************************************************************************)
(* Calendars: DATETIME_TYPES and the date arithmetic of cftime.            *)
(***************************************************************************)
DATETIME_TYPES ==
    {"noleap", "365_day", "all_leap", "360_day", "julian", "gregorian",
     "standard", "proleptic_gregorian"}

IsLeap(calendar, year) ==
    CASE calendar \in {"noleap", "365_day", "360_day"} -> FALSE
      [] calendar = "all_leap" -> TRUE
      [] calendar = "julian" -> year % 4 = 0
      [] calendar = "proleptic_gregorian" ->
            (year % 4 = 0 /\ year % 100 # 0) \/ year % 400 = 0
      [] OTHER ->  \* gregorian, standard: Julian rule before 1582
            IF year < 1582 THEN year % 4 = 0
            ELSE (year % 4 = 0 /\ year % 100 # 0) \/ year % 400 = 0

DaysInMonth(calendar, year, month) ==
    IF calendar = "360_day" THEN 30
    ELSE IF month = 2 THEN (IF IsLeap(calendar, year) THEN 29 ELSE 28)
    ELSE IF month \in {4, 6, 9, 11} THEN 30 ELSE 31

\* Normalise a date whose day may exceed its month (years away from 1582).
RECURSIVE RollDays(_, _, _, _, _)
RollDays(calendar, year, month, day, hour) ==
    IF day <= DaysInMonth(calendar, year, month)
    THEN <<year, month, day, hour>>
    ELSE IF month = 12
         THEN RollDays(calendar, year + 1, 1,
                       day - DaysInMonth(calendar, year, month), hour)
         ELSE RollDays(calendar, year, month + 1,
                       day - DaysInMonth(calendar, year, month), hour)

\* the date arithmetic of the standard calendar whatever the cube's calendar
CalculateGapTimeStandard(cb, year, month, day, hour, time_period) ==
    RollDays("proleptic_gregorian", year, month,
             day + ((hour + time_period) \div 24), (hour + time_period) % 24)

\* _calculate_gap_time: last date/time + time_period hours, as a 4-tuple
CalculateGapTime(cb, year, month, day, hour, time_period) ==
    RollDays(cb.calendar, year, month,
             day + ((hour + time_period) \div 24), (hour + time_period) % 24)

(***************************************************************************)
(* GapFiller: fill_trajectory_gaps and fill_trajectory_gaps_new.           *)
(* A storm is a record of parallel sequences.  grid_x / grid_y are the     *)
(* grid indices (fill_trajectory_gaps_new keys them "i" and "j").          *)
(***************************************************************************)
MissVal == -99       \* miss_val=-99, the default missing value

AuxNames == {"slp", "rprof"}

\* the time components of the storm's last point, advanced by _calculate_gap_time
NextTime(st, cb, time_period) ==
    CalculateGapTime(cb, Last(st.year), Last(st.month), Last(st.day),
                     Last(st.hour), time_period)

\* the deltas computed before the loop (gap_length # 0)
\* dlon = (((lon - storm["lon"][-1]) + 180) % 360 - 180) / gap_length
GapDeltas(st, lon, lat, grid_x, grid_y, gap_length) ==
    [dlon |-> RatDivInt(
                 RatSub(RatMod(RatAdd(RatSub(lon, Last(st.lon)),
                                      RatInt(180000000)), 360000000),
                        RatInt(180000000)),
                 gap_length),
     dlat |-> RatDivInt(RatSub(lat, Last(st.lat)), gap_length),
     dx   |-> Rat(grid_x - Last(st.grid_x), gap_length),
     dy   |-> Rat(grid_y - Last(st.grid_y), gap_length)]

\* lon1 of fill_trajectory_gaps_new: round((storm["lon"][-1] + dlon) % 360, 6)
RoundLon(st, dl) ==
    RatInt(RatRound(RatMod(RatAdd(Last(st.lon), dl.dlon), 360000000)))

\* the value the loop appends to storm["step"]
NextStep(st) == Last(st.step) + 1

\* one pass of the loop body of fill_trajectory_gaps_new (lines 201-223)
GapPointNew(st, dl, cb, time_period) ==
    LET lon1 == RoundLon(st, dl)
        lat1 == RatInt(RatRound(RatAdd(Last(st.lat), dl.dlat)))
        x1 == RatTrunc(RatMod(RatAdd(RatInt(Last(st.grid_x)), dl.dx), cb.nx))
        y1 == RatTrunc(RatAdd(RatInt(Last(st.grid_y)), dl.dy))
        t == NextTime(st, cb, time_period)
    IN  [st EXCEPT !.lon = Append(@, lon1),
                   !.lat = Append(@, lat1),
                   !.grid_x = Append(@, x1),
                   !.grid_y = Append(@, y1),
                   !.step = Append(@, NextStep(st)),
                   !.track_id = Append(@, Last(st.track_id)),
                   !.year = Append(@, t[1]),
                   !.month = Append(@, t[2]),
                   !.day = Append(@, t[3]),
                   !.hour = Append(@, t[4])]

\* one pass of the loop body of fill_trajectory_gaps (lines 124-145):
\* no rounding, and track_id is not extended
GapPointOld(st, dl, cb, time_period) ==
    LET lon1 == RatMod(RatAdd(Last(st.lon), dl.dlon), 360000000)
        lat1 == RatAdd(Last(st.lat), dl.dlat)
        x1 == RatTrunc(RatMod(RatAdd(RatInt(Last(st.grid_x)), dl.dx), cb.nx))
        y1 == RatTrunc(RatAdd(RatInt(Last(st.grid_y)), dl.dy))
        t == NextTime(st, cb, time_period)
    IN  [st EXCEPT !.lon = Append(@, lon1),
                   !.lat = Append(@, lat1),
                   !.grid_x = Append(@, x1),
                   !.grid_y = Append(@, y1),
                   !.step = Append(@, NextStep(st)),
                   !.year = Append(@, t[1]),
                   !.month = Append(@, t[2]),
                   !.day = Append(@, t[3]),
                   !.hour = Append(@, t[4])]

\* for gap_index in range(1, gap_length): n = the passes left
RECURSIVE GapLoop(_, _, _, _, _, _)
GapLoop(st, dl, cb, time_period, new, n) ==
    IF n <= 0 THEN st
    ELSE GapLoop(IF new THEN GapPointNew(st, dl, cb, time_period)
                        ELSE GapPointOld(st, dl, cb, time_period),
                 dl, cb, time_period, new, n - 1)

RECURSIVE AccumulateVar(_, _, _)
AccumulateVar(s, dvar, n) ==
    IF n <= 0 THEN s ELSE AccumulateVar(Append(s, RatAdd(Last(s), dvar)), dvar, n - 1)

RECURSIVE AppendMissing(_, _, _)
AppendMissing(s, var1, n) ==
    IF n <= 0 THEN s ELSE AppendMissing(Append(s, var1), var1, n - 1)

\* for var in new_var (lines 147-161 and 225-239); gap_length # 0
FillAuxVars(st, new_var, gap_length, new, miss_val) ==
    LET n == gap_length - 1
        slp1 ==
            IF "slp" \in new_var.keys
            THEN LET q == RatDivInt(RatSub(new_var.slp, Last(st.slp)), gap_length)
                     dvar == IF new THEN RatInt(RatRound(q)) ELSE q
                 IN  AccumulateVar(st.slp, dvar, n)
            ELSE st.slp
        rprof1 ==
            IF "rprof" \in new_var.keys
            THEN AppendMissing(st.rprof,
                               [k \in 1..Len(new_var.rprof) |-> miss_val], n)
            ELSE st.rprof
    IN  [st EXCEPT !.slp = slp1, !.rprof = rprof1]

\* The whole body for a given gap_length: the outcome and the storm after it.
\* A zero gap_length divides by zero at the first delta (ZeroDivisionError,
\* before anything is appended); range(1, gap_length) is empty for
\* gap_length <= 1.
FillBody(st, lon, lat, grid_x, grid_y, cb, time_period, new_var, gap_length, new, miss_val) ==
    IF gap_length = 0
    THEN [outcome |-> "ZeroDivisionError", storm |-> st]
    ELSE LET dl == GapDeltas(st, lon, lat, grid_x, grid_y, gap_length)
             s1 == GapLoop(st, dl, cb, time_period, new, gap_length - 1)
         IN  [outcome |-> "returned",
              storm |-> FillAuxVars(s1, new_var, gap_length, new, miss_val)]

\* fill_trajectory_gaps: gap_length = step - storm["step"][-1]
fill_trajectory_gaps(st, step, lon, lat, grid_x, grid_y, cb, time_period, new_var, miss_val) ==
    FillBody(st, lon, lat, grid_x, grid_y, cb, time_period, new_var,
             step - Last(st.step), FALSE, miss_val)

\* fill_trajectory_gaps_new: gap_length = gap (step is not read)
fill_trajectory_gaps_new(st, step, lon, lat, i, j, cb, time_period, new_var, gap, miss_val) ==
    FillBody(st, lon, lat, i, j, cb, time_period, new_var, gap, TRUE, miss_val)

(***************************************************************************)
(* The gap filler as a state machine: a storm under assembly receives a    *)
(* newly detected point; the caller runs one of the two fillers and then   *)
(* appends the point itself.                                               *)
(***************************************************************************)
TimePeriods == {6}

LonStart == {1, 500000, 359500000, 359999999}

LonInputs == {0, 1, 500000, 180000001, 359500000, 359999999}

LatInputs == {10000000, 10000001}

GridXInputs == {0, NX - 1}

GridYInputs == {2, 7}

NewVars ==
    {[keys |-> AuxNames, slp |-> RatInt(v),
      rprof |-> [k \in 1..ProfileLen |-> k]] : v \in {100000, 100004}}

Cubes == {[calendar |-> c, nx |-> NX] : c \in {"360_day", "noleap"}}

\* n applications of _calculate_gap_time to a 4-tuple
RECURSIVE AdvanceTime(_, _, _, _)
AdvanceTime(cb, t, time_period, n) ==
    IF n <= 0 THEN t
    ELSE AdvanceTime(cb, CalculateGapTime(cb, t[1], t[2], t[3], t[4], time_period),
                     time_period, n - 1)

\* the date and hour of a storm's first point: just before the end of
\* February and just before the end of the year
StartDates == {<<2000, 2, 28, 18>>, <<2000, 12, 30, 6>>}

\* A gap-free storm of len points that starts at step 3 on the date `start`
\* and drifts by 0.1 degree a step
InitStorm(cb, lon0, len, time_period, start) ==
    LET t(k) == AdvanceTime(cb, start, time_period, k - 1)
    IN  [lon |-> [k \in 1..len |-> RatInt((lon0 + (k - len) * 100000) % 360000000)],
         lat |-> [k \in 1..len |-> RatInt(10000000)],
         grid_x |-> [k \in 1..len |-> NX - 1],
         grid_y |-> [k \in 1..len |-> 5],
         step |-> [k \in 1..len |-> 2 + k],
         track_id |-> [k \in 1..len |-> 7],
         year |-> [k \in 1..len |-> t(k)[1]],
         month |-> [k \in 1..len |-> t(k)[2]],
         day |-> [k \in 1..len |-> t(k)[3]],
         hour |-> [k \in 1..len |-> t(k)[4]],
         slp |-> [k \in 1..len |-> RatInt(100000)],
         rprof |-> [k \in 1..len |-> [q \in 1..ProfileLen |-> q]],
         length |-> len]

NoCall == [fn |-> "none"]

NoStorm == [length |-> 0]

OverlapIdle ==
    /\ storms_p = <<>>
    /\ storms_c = <<>>
    /\ tcall = NoCall
    /\ scall = NoCall

MergeIdle ==
    /\ storms_match = <<>>
    /\ fs = <<>>
    /\ mpc = "off"

GapIdle ==
    /\ storm = NoStorm
    /\ cube = [calendar |-> "360_day", nx |-> NX]
    /\ call = NoCall
    /\ pc = "off"

GapInit ==
    /\ cube \in Cubes
    /\ \E lon0 \in LonStart, len \in 1..2, tp \in TimePeriods, start \in StartDates :
          storm = InitStorm(cube, lon0, len, tp, start)
    /\ call = NoCall
    /\ pc = "idle"
    /\ OverlapIdle
    /\ MergeIdle

\* The caller runs fill_trajectory_gaps for a new point at `step`.
FillTrajectoryGaps ==
    /\ pc = "idle"
    /\ \E step \in (Last(storm.step) - 1)..(Last(storm.step) + MaxGap),
          lon \in LonInputs, lat \in LatInputs, grid_x \in GridXInputs,
          grid_y \in GridYInputs, tp \in TimePeriods, new_var \in NewVars :
          LET r == fill_trajectory_gaps(storm, step, RatInt(lon), RatInt(lat),
                                        grid_x, grid_y, cube, tp, new_var, MissVal)
          IN  /\ call' = [fn |-> "fill_trajectory_gaps", step |-> step,
                          lon |-> RatInt(lon), lat |-> RatInt(lat),
                          grid_x |-> grid_x, grid_y |-> grid_y,
                          time_period |-> tp, new_var |-> new_var,
                          gap_length |-> step - Last(storm.step), pre |-> storm]
              /\ storm' = r.storm
              /\ pc' = IF r.outcome = "returned" THEN "returned" ELSE "raised"
    /\ UNCHANGED <<cube, overlapVars, mergeVars>>

\* The caller runs fill_trajectory_gaps_new for a new point at `step`, passing `gap`.
FillTrajectoryGapsNew ==
    /\ pc = "idle"
    /\ \E step \in (Last(storm.step) + 1)..(Last(storm.step) + MaxGap),
          gap \in (-1)..MaxGap,
          lon \in LonInputs, lat \in LatInputs, i \in GridXInputs,
          j \in GridYInputs, tp \in TimePeriods, new_var \in NewVars :
          LET r == fill_trajectory_gaps_new(storm, step, RatInt(lon), RatInt(lat),
                                            i, j, cube, tp, new_var, gap, MissVal)
          IN  /\ call' = [fn |-> "fill_trajectory_gaps_new", step |-> step,
                          lon |-> RatInt(lon), lat |-> RatInt(lat),
                          grid_x |-> i, grid_y |-> j,
                          time_period |-> tp, new_var |-> new_var,
                          gap_length |-> gap, pre |-> storm]
              /\ storm' = r.storm
              /\ pc' = IF r.outcome = "returned" THEN "returned" ELSE "raised"
    /\ UNCHANGED <<cube, overlapVars, mergeVars>>

\* After the filler has returned the caller appends the new point itself.
AppendNewPoint ==
    /\ pc = "returned"
    /\ LET pre == call.pre
           t == AdvanceTime(cube, <<Last(pre.year), Last(pre.month), Last(pre.day),
                                    Last(pre.hour)>>,
                            call.time_period, call.step - Last(pre.step))
       IN  storm' = [storm EXCEPT
                        !.lon = Append(@, call.lon),
                        !.lat = Append(@, call.lat),
                        !.grid_x = Append(@, call.grid_x),
                        !.grid_y = Append(@, call.grid_y),
                        !.step = Append(@, call.step),
                        !.track_id = Append(@, Last(pre.track_id)),
                        !.year = Append(@, t[1]),
                        !.month = Append(@, t[2]),
                        !.day = Append(@, t[3]),
                        !.hour = Append(@, t[4]),
                        !.slp = Append(@, call.new_var.slp),
                        !.rprof = Append(@, call.new_var.rprof),
                        !.length = Len(storm.lon) + 1]
    /\ pc' = "appended"
    /\ UNCHANGED <<cube, call, overlapVars, mergeVars>>

GapNext == FillTrajectoryGaps \/ FillTrajectoryGapsNew \/ AppendNewPoint

SpecGap == GapInit /\ [][GapNext]_vars

(***************************************************************************)
(* Claims about the gap filler (checked under SpecGap).                    *)
(***************************************************************************)
FillerCalled == call.fn \in {"fill_trajectory_gaps", "fill_trajectory_gaps_new"}

\* the indices of the synthetic points the filler appended
Synthetic == (Len(call.pre.lon) + 1)..(Len(call.pre.lon) + call.gap_length - 1)

InLonRange(x) == x.n >= 0 /\ RatLt(x, RatInt(360000000))

\* C2: a filler call with gap_length < 1 (zero or negative) ends in an explicit
\* error, never in a normal return, and leaves the storm's arrays unchanged.
C2_GapBelowOneRaises ==
    (FillerCalled /\ call.gap_length < 1) => (pc = "raised" /\ storm = call.pre)

\* C3: for gap_length >= 2 every synthetic longitude appended by the filler lies
\* in [0, 360) (never negative, never 360), and the interpolation takes the
\* short way across the seam: from 359.5 to 0.5 with gap_length 2 the one
\* synthetic point is at the seam (0), not at 180.
C3_SyntheticLonInRange ==
    (FillerCalled /\ pc = "returned" /\ call.gap_length >= 2) =>
        /\ \A k \in Synthetic : InLonRange(storm.lon[k])
        /\ (/\ Last(call.pre.lon) = RatInt(359500000)
            /\ call.lon = RatInt(500000)
            /\ call.gap_length = 2)
           => storm.lon[Len(call.pre.lon) + 1] = RatInt(0)

\* C4: after the filler has run for a synthesized gap (the new point's step
\* exceeds storm.step[-1] + 1) and the caller has appended the new point with
\* its step, storm.step increases by exactly one from entry to entry, for
\* fill_trajectory_gaps and for fill_trajectory_gaps_new with any gap argument.
C4_StepContiguous ==
    (pc = "appended" /\ call.step > Last(call.pre.step) + 1) =>
        \A k \in 1..(Len(storm.step) - 1) : storm.step[k + 1] = storm.step[k] + 1

(***************************************************************************)
(* OverlapDetector: _storm_dates, storms_overlap_in_time and               *)
(* storm_overlap_in_space.  A Python string of digits is a sequence of     *)
(* digits; strings are ordered as Python orders them (lexicographically,   *)
(* a proper prefix first).                                                 *)
(***************************************************************************)
\* str(n) for an integer n >= 0
RECURSIVE Str(_)
Str(n) == IF n < 10 THEN <<n>> ELSE Append(Str(n \div 10), n % 10)

\* s.zfill(width): zeros on the left up to width characters
RECURSIVE ZFill(_, _)
ZFill(s, width) == IF Len(s) >= width THEN s ELSE ZFill(<<0>> \o s, width)

\* int(s) for a string of digits
RECURSIVE IntOf(_)
IntOf(s) ==
    IF Len(s) = 0 THEN 0 ELSE 10 * IntOf(SubSeq(s, 1, Len(s) - 1)) + Last(s)

\* a < b for Python strings
RECURSIVE StrLess(_, _)
StrLess(a, b) ==
    IF Len(b) = 0 THEN FALSE
    ELSE IF Len(a) = 0 THEN TRUE
    ELSE IF a[1] # b[1] THEN a[1] < b[1]
    ELSE StrLess(Tail(a), Tail(b))

\* the date key of point `it` (1-based here) as _storm_dates forms it
DateKey(st, it) ==
    Str(st.year[it]) \o ZFill(Str(st.month[it]), 2) \o ZFill(Str(st.day[it]), 2)
        \o ZFill(Str(st.hour[it]), 2)

\* _storm_dates: the list of date strings of a storm
StormDates(st) == [it \in 1..Len(st.year) |-> DateKey(st, it)]

Range(s) == {s[k] : k \in 1..Len(s)}

\* list.index(v): the 0-based index of the first occurrence (v is in s)
IndexOf(s, v) == (CHOOSE k \in 1..Len(s) : s[k] = v /\ \A q \in 1..(k - 1) : s[q] # v) - 1

\* sorted(list(S))[0] for a non-empty set of strings
FirstSorted(S) == CHOOSE a \in S : \A b \in S : a = b \/ StrLess(a, b)

\* a test that asks for two shared dates
NeedsTwoShared(overlap) == Cardinality(overlap) >= 2

\* the test `len(overlap) >= 1` of storms_overlap_in_time
OverlapsEnough(overlap) == Cardinality(overlap) >= 1

\* storms_overlap_in_time(storm_x, storms_y)
storms_overlap_in_time(storm_x, storms_y) ==
    LET set_x == Range(StormDates(storm_x))
        Keep(st) == OverlapsEnough(set_x \cap Range(StormDates(st)))
    IN  SelectSeq(storms_y, Keep)

DistanceThreshold == 500000    \* distance_threshold=0.5 degrees, in microdegrees

None == [kind |-> "None"]

\* the policy with the same-start branch reversed (extend_odd for a late storm
\* at least as long as the early one)
OverlapMethodOddReversed(len_c, len_p, len_overlap, time_c, time_p) ==
    IF len_c = len_p /\ len_p = len_overlap THEN "remove"
    ELSE IF time_c = time_p
         THEN (IF len_c >= len_p THEN "extend_odd" ELSE "remove")
    ELSE IF time_p > time_c THEN "extend"
    ELSE "remove"

\* lines 378-397: the method of a matched pair
OverlapMethod(len_c, len_p, len_overlap, time_c, time_p) ==
    IF len_c = len_p /\ len_p = len_overlap THEN "remove"
    ELSE IF time_c = time_p
         THEN (IF len_c >= len_p THEN "remove" ELSE "extend_odd")
    ELSE IF time_p > time_c THEN "extend"
    ELSE "remove"

\* lines 341-359 for one candidate: the indices of overlap[0] and whether the
\* two storms are within the threshold on both axes there (overlap not empty)
CandidateAt(storm_c, storm_p) ==
    LET set_c == StormDates(storm_c)
        set_p == StormDates(storm_p)
        overlap == Range(set_c) \cap Range(set_p)
        time_c == IndexOf(set_c, FirstSorted(overlap))
        time_p == IndexOf(set_p, FirstSorted(overlap))
        dist_lat == RatAbs(RatSub(storm_c.lat[time_c + 1], storm_p.lat[time_p + 1]))
        dist_lon == RatAbs(RatSub(storm_c.lon[time_c + 1], storm_p.lon[time_p + 1]))
    IN  [time_c |-> time_c, time_p |-> time_p, len_overlap |-> Cardinality(overlap),
         close |-> /\ RatLt(dist_lat, RatInt(DistanceThreshold))
                   /\ RatLt(dist_lon, RatInt(DistanceThreshold))]

\* the loop of storm_overlap_in_space from candidate ist (1-based) on: the
\* first candidate within the threshold is returned; overlap[0] of a candidate
\* that shares no date raises IndexError
RECURSIVE SpaceLoop(_, _, _)
SpaceLoop(storm_c, storms_y, ist) ==
    IF ist > Len(storms_y) THEN None
    ELSE IF Range(StormDates(storm_c)) \cap Range(StormDates(storms_y[ist])) = {}
         THEN [kind |-> "IndexError"]
    ELSE LET a == CandidateAt(storm_c, storms_y[ist])
         IN  IF a.close
             THEN [kind |-> "record",
                   early |-> storms_y[ist],
                   late |-> storm_c,
                   time_c |-> a.time_c,
                   time_p |-> a.time_p,
                   offset |-> a.time_p - a.time_c,
                   method |-> OverlapMethod(Len(storm_c.lat), Len(storms_y[ist].lat),
                                            a.len_overlap, a.time_c, a.time_p)]
             ELSE SpaceLoop(storm_c, storms_y, ist + 1)

\* storm_overlap_in_space(storm_c, storms_y, distance_threshold=0.5)
storm_overlap_in_space(storm_c, storms_y) == SpaceLoop(storm_c, storms_y, 1)

(***************************************************************************)
(* The storms of two adjacent windows.  Time runs on a grid of 12-hour     *)
(* steps t = 0, 1, ... from an epoch in a 360_day calendar; a track covers *)
(* the steps start .. start + len - 1 and follows one of three paths:      *)
(*   "A"  0.1 degree a step in longitude and latitude;                     *)
(*   "D"  0.6 degree east of A at t = 0, closing in by 0.25 degree a step; *)
(*   "F"  5 degrees away from A on both axes.                              *)
(***************************************************************************)
MaxT == 3            \* last step of the time grid

Epochs == {<<999, 12, 30, 0>>, <<2000, 1, 30, 0>>}

Paths == {"A", "D", "F"}

TrackCube == [calendar |-> "360_day", nx |-> NX]

PathLon(path, t) ==
    10000000 + 100000 * t
        + (CASE path = "A" -> 0 [] path = "D" -> 600000 - 250000 * t [] OTHER -> 5000000)

PathLat(path, t) == 20000000 + 100000 * t + (IF path = "F" THEN 5000000 ELSE 0)

Track(epoch, path, start, len) ==
    LET t(k) == start + k - 1
        date(k) == AdvanceTime(TrackCube, epoch, 12, t(k))
    IN  [lon |-> [k \in 1..len |-> RatInt(PathLon(path, t(k)))],
         lat |-> [k \in 1..len |-> RatInt(PathLat(path, t(k)))],
         grid_x |-> [k \in 1..len |-> t(k) % NX],
         grid_y |-> [k \in 1..len |-> IF path = "F" THEN 9 ELSE 4],
         year |-> [k \in 1..len |-> date(k)[1]],
         month |-> [k \in 1..len |-> date(k)[2]],
         day |-> [k \in 1..len |-> date(k)[3]],
         hour |-> [k \in 1..len |-> date(k)[4]],
         slp |-> [k \in 1..len |-> RatInt(100000 + t(k))],
         length |-> len]

Spans == {sp \in (0..MaxT) \X (1..(MaxT + 1)) : sp[1] + sp[2] - 1 <= MaxT}

TrackIds(paths, first) ==
    {<<path, sp[1], sp[2]>> : path \in paths, sp \in {q \in Spans : q[1] >= first}}

Rank(id) == (IF id[1] = "A" THEN 0 ELSE IF id[1] = "D" THEN 100 ELSE 200)
                + 10 * id[2] + id[3]

\* the lists of one track, and of two tracks in rank order, drawn from ids
IdLists(ids) ==
    {<<a>> : a \in ids} \cup {q \in ids \X ids : Rank(q[1]) <= Rank(q[2])}

\* every track of the grid
TrackOf ==
    [epoch \in Epochs, id \in TrackIds(Paths, 0) |-> Track(epoch, id[1], id[2], id[3])]

\* the lists of one or two tracks drawn from ids, in any order
AllIdLists(ids) == {<<a>> : a \in ids} \cup (ids \X ids)

OverlapInit ==
    /\ \E epoch \in Epochs, ps \in AllIdLists(TrackIds(Paths, 0)),
          c \in TrackIds({"A"}, 0) :
          /\ storms_p = [k \in 1..Len(ps) |-> TrackOf[epoch, ps[k]]]
          /\ storms_c = <<TrackOf[epoch, c]>>
    /\ tcall = NoCall
    /\ scall = NoCall
    /\ GapIdle
    /\ MergeIdle

\* storms_overlap_in_time for a storm of one window against the other window
StormsOverlapInTime ==
    /\ scall = NoCall
    /\ tcall = NoCall
    /\ \E d \in {"forward", "backward"} :
          LET xs == IF d = "forward" THEN storms_c ELSE storms_p
              ys == IF d = "forward" THEN storms_p ELSE storms_c
          IN  \E k \in 1..Len(xs) :
                 tcall' = [fn |-> "storms_overlap_in_time", dir |-> d,
                           x |-> xs[k], ys |-> ys,
                           result |-> storms_overlap_in_time(xs[k], ys)]
    /\ UNCHANGED <<storms_p, storms_c, scall, gapVars, mergeVars>>

\* storm_overlap_in_space for a current storm and its temporal candidates
StormOverlapInSpace ==
    /\ scall = NoCall
    /\ tcall # NoCall
    /\ tcall.dir = "forward"
    /\ scall' = [fn |-> "storm_overlap_in_space", c |-> tcall.x, ys |-> tcall.result,
                 result |-> storm_overlap_in_space(tcall.x, tcall.result)]
    /\ UNCHANGED <<storms_p, storms_c, tcall, gapVars, mergeVars>>

OverlapNext == StormsOverlapInTime \/ StormOverlapInSpace

SpecOverlap == OverlapInit /\ [][OverlapNext]_vars

(***************************************************************************)
(* Claims about the overlap detector (checked under SpecOverlap).  Dates   *)
(* are compared here as (year, month, day, hour) tuples in chronological   *)
(* order, independently of the detector's string keys.                     *)
(***************************************************************************)
DateTuple(st, k) == <<st.year[k], st.month[k], st.day[k], st.hour[k]>>

DateSet(st) == {DateTuple(st, k) : k \in 1..Len(st.year)}

\* a is chronologically before b
Earlier(a, b) ==
    \E q \in 1..4 : a[q] < b[q] /\ \A r \in 1..(q - 1) : a[r] = b[r]

SharedDates(a, b) == DateSet(a) \cap DateSet(b)

\* the chronologically first date shared by a and b (they share one)
FirstSharedDate(a, b) ==
    CHOOSE d \in SharedDates(a, b) : \A e \in SharedDates(a, b) : e = d \/ Earlier(d, e)

\* the 0-based index of the first point of st that has date d
FirstIndexOfDate(st, d) ==
    (CHOOSE k \in 1..Len(st.year) :
        DateTuple(st, k) = d /\ \A q \in 1..(k - 1) : DateTuple(st, q) # d) - 1

\* both per-axis differences at the first shared date are below the threshold
CloseAtFirstShared(c, p) ==
    LET d == FirstSharedDate(c, p)
        kc == FirstIndexOfDate(c, d) + 1
        kp == FirstIndexOfDate(p, d) + 1
    IN  /\ RatLt(RatAbs(RatSub(c.lat[kc], p.lat[kp])), RatInt(DistanceThreshold))
        /\ RatLt(RatAbs(RatSub(c.lon[kc], p.lon[kp])), RatInt(DistanceThreshold))

TimeCalled == tcall # NoCall

SpaceCalled == scall # NoCall

Matched == SpaceCalled /\ scall.result.kind = "record"

\* C5: storms_overlap_in_time(storm_x, storms_y) returns exactly the storms of
\* storms_y, in input order, that share at least one date with storm_x; and the
\* relation is symmetric: B is returned for (A, [B, ...]) iff A is returned
\* for (B, [A]).
C5_TimeOverlapExactSymmetric ==
    TimeCalled =>
        LET Shares(y) == SharedDates(tcall.x, y) # {}
        IN  /\ tcall.result = SelectSeq(tcall.ys, Shares)
            /\ \A k \in 1..Len(tcall.ys) :
                  (tcall.ys[k] \in Range(tcall.result))
                  <=> (tcall.x \in Range(storms_overlap_in_time(tcall.ys[k], <<tcall.x>>)))

\* C5 witness: a call on two candidates of which exactly one shares a date
C5_Witness ==
    /\ TimeCalled
    /\ Len(tcall.ys) = 2
    /\ Len(tcall.result) = 1
    /\ SharedDates(tcall.x, tcall.ys[1]) = {}

\* C6: storm_overlap_in_space returns a record whose early storm is the first
\* candidate, in input order, within the threshold on both axes at the first
\* shared date, with late = storm_c; it returns None iff no candidate is.
C6_FirstMatch ==
    SpaceCalled =>
        LET good == {k \in 1..Len(scall.ys) : CloseAtFirstShared(scall.c, scall.ys[k])}
        IN  IF good = {} THEN scall.result = None
            ELSE /\ scall.result.kind = "record"
                 /\ scall.result.early =
                       scall.ys[CHOOSE k \in good : \A q \in good : k <= q]
                 /\ scall.result.late = scall.c

\* C7: every record has a method of the policy table, offset = time_p - time_c,
\* and method extend only with offset >= 1.
C7_ClassificationTable ==
    Matched =>
        LET r == scall.result
            len_c == Len(r.late.lat)
            len_p == Len(r.early.lat)
            shared == SharedDates(r.late, r.early)
            allShared == /\ len_c = len_p
                         /\ DateSet(r.late) \subseteq shared
                         /\ DateSet(r.early) \subseteq shared
            expected ==
                IF allShared THEN "remove"
                ELSE IF r.time_c = r.time_p
                     THEN (IF len_c >= len_p THEN "remove" ELSE "extend_odd")
                ELSE IF r.time_p > r.time_c THEN "extend"
                ELSE "remove"
        IN  /\ r.method \in {"remove", "extend", "extend_odd"}
            /\ r.method = expected
            /\ r.offset = r.time_p - r.time_c
            /\ (r.method = "extend" => r.offset >= 1)

\* C7 witness: a pair with the same start whose late storm is the shorter one
C7_Witness ==
    /\ Matched
    /\ scall.result.method = "extend_odd"
    /\ scall.result.time_c = scall.result.time_p
    /\ Len(scall.result.late.lat) < Len(scall.result.early.lat)

\* C8: in every record time_c and time_p are the indices, in the late and in
\* the early storm, of the chronologically first date the two storms share.
C8_FirstSharedIndex ==
    Matched =>
        LET r == scall.result
            d == FirstSharedDate(r.late, r.early)
        IN  /\ r.time_c = FirstIndexOfDate(r.late, d)
            /\ r.time_p = FirstIndexOfDate(r.early, d)

(***************************************************************************)
(* TrackFileMerger: write_track_line and                                   *)
(* remove_duplicates_from_track_files.                                     *)
(*                                                                         *)
(* A track file is a sequence of lines.  A line is modelled by its         *)
(* whitespace-separated tokens and by a tag for its exact spacing          *)
(* (`layout`): a line copied from the input keeps the layout the tracker   *)
(* wrote, a line formatted by write_track_line has that function's.        *)
(* Integer tokens are strings of digits; a "{:.6f}" token is the number of *)
(* microdegrees it spells; a "{:.6e}" token is its 7-digit mantissa and    *)
(* decimal exponent.                                                       *)
(***************************************************************************)
\* "{:.6f}".format(float(x)) for x in microdegrees
Fmt6f(x) == RatRound(x)

\* float(token) of a "{:.6f}" token
FloatOf(token) == RatInt(token)

\* "{:.6e}".format(float(x)) for x = n/d > 0 in units of 1e-5: the mantissa
\* m (7 digits) and the exponent e with x = m * 10^(e - 6) after rounding
RECURSIVE Sci(_, _, _)
Sci(n, d, e) ==
    IF n < 1000000 * d THEN Sci(10 * n, d, e - 1)
    ELSE IF n >= 10000000 * d THEN Sci(n, 10 * d, e + 1)
    ELSE LET m == RatRound([n |-> n, d |-> d])
         IN  IF m = 10000000 THEN [m |-> 1000000, e |-> e + 1] ELSE [m |-> m, e |-> e]

Fmt6e(x) == IF x.n = 0 THEN [m |-> 0, e |-> 0] ELSE Sci(x.n, x.d, 1)

\* column_names as the list of names in column order (reversed_name_key)
ColumnOrdered ==
    <<"grid_x", "grid_y", "lon", "lat", "slp", "year", "month", "day", "hour">>

\* column_ordered[4:-4]
VariableColumns == SubSeq(ColumnOrdered, 5, Len(ColumnOrdered) - 4)

HeaderLine(layout, count, st) ==
    [kind |-> "start", layout |-> layout, count |-> Str(count),
     year |-> Str(st.year[1]), month |-> Str(st.month[1]),
     day |-> Str(st.day[1]), hour |-> Str(st.hour[1])]

\* the point line of point `it` (1-based) of a storm
PointLine(layout, st, it, columns) ==
    [kind |-> "point", layout |-> layout,
     grid_x |-> Str(st.grid_x[it]), grid_y |-> Str(st.grid_y[it]),
     lon |-> Fmt6f(st.lon[it]), lat |-> Fmt6f(st.lat[it]),
     vars |-> [v \in 1..Len(columns) |-> Fmt6e(st[columns[v]][it])],
     year |-> Str(st.year[it]), month |-> Str(st.month[it]),
     day |-> Str(st.day[it]), hour |-> Str(st.hour[it])]

\* the loop run as range(1, no_lines): the first point is skipped
LeadInLinesFromOne(st, no_lines, columns) ==
    [it \in 1..(no_lines - 1) |-> PointLine("write_track_line", st, it + 1, columns)]

\* lines 443-468: for it in range(no_lines)
LeadInLines(st, no_lines, columns) ==
    [it \in 1..no_lines |-> PointLine("write_track_line", st, it, columns)]

\* write_track_line(storm, no_lines, new_length, column_names):
\* the header line and the list of point lines
write_track_line(st, no_lines, new_length, columns) ==
    [track_line_date |-> HeaderLine("write_track_line", new_length, st),
     track_lines |-> LeadInLines(st, no_lines, columns)]

\* the block of a storm as the tracker wrote it to its window's track file
TrackerBlock(st) ==
    <<HeaderLine("tracker", st.length, st)>>
        \o [it \in 1..st.length |-> PointLine("tracker", st, it, VariableColumns)]

\* the state of a pass over a file before its first line
PassStart ==
    [out |-> <<>>, outcome |-> "ok", fresh |-> TRUE, line_of_traj |-> 0,
     matching_track |-> FALSE, line_header |-> <<>>, track_length |-> 0,
     start_date |-> <<>>]

\* a header line: lines 507-517 and 547-557
ReadHeader(ps, line) ==
    [ps EXCEPT !.fresh = FALSE, !.line_of_traj = 0, !.matching_track = FALSE,
               !.line_header = line, !.track_length = IntOf(line.count),
               !.start_date = line.year \o ZFill(line.month, 2)
                                 \o ZFill(line.day, 2) \o ZFill(line.hour, 2)]

\* a line cut short: a header that is the word "start" alone (line_array[1]
\* raises IndexError), a point line of fewer than three tokens (line_array[2]
\* raises IndexError)
TruncatedHeader == [kind |-> "start", layout |-> "tracker", truncated |-> TRUE]

TruncatedPoint == [kind |-> "point", layout |-> "tracker", truncated |-> TRUE]

IsTruncated(line) == "truncated" \in DOMAIN line

\* lines 507-517 and 547-557 on a header line, whole or cut short
ReadOrRaise(ps, line) ==
    IF IsTruncated(line) THEN [ps EXCEPT !.outcome = "IndexError"]
    ELSE ReadHeader(ps, line)

\* lines 526-533 and 568-575: a record's storm matches the block being read
BlockMatches(ps, line, st) ==
    /\ StormDates(st)[1] = ps.start_date
    /\ ps.track_length = st.length
    /\ FloatOf(line.lon) = st.lon[1]
    /\ FloatOf(line.lat) = st.lat[1]

\* a block is dropped only if every record names it
MatchesEveryEarly(ps, line, records) ==
    \A k \in 1..Len(records) : BlockMatches(ps, line, records[k].early)

\* lines 523-534: some record's early storm matches
MatchesSomeEarly(ps, line, records) ==
    \E k \in 1..Len(records) : BlockMatches(ps, line, records[k].early)

\* one line of the previous file: lines 505-541
PrevLine(ps, line, records) ==
    IF line.kind = "start" THEN ReadOrRaise(ps, line)
    ELSE IF ps.fresh THEN [ps EXCEPT !.outcome = "UnboundLocalError"]
    ELSE IF ps.line_of_traj > ps.track_length THEN ps
    ELSE IF IsTruncated(line) THEN [ps EXCEPT !.outcome = "IndexError"]
    ELSE IF ps.line_of_traj = 0
         THEN LET m == MatchesSomeEarly(ps, line, records)
              IN  [ps EXCEPT !.matching_track = m,
                             !.out = IF m THEN @ ELSE @ \o <<ps.line_header, line>>,
                             !.line_of_traj = 1]
    ELSE [ps EXCEPT !.out = IF ps.matching_track THEN @ ELSE Append(@, line),
                    !.line_of_traj = @ + 1]

\* the header written for an extended block keeps the old point count
ExtendedHeaderSameCount(early, track_length, match_offset, columns) ==
    write_track_line(early, match_offset, track_length, columns).track_line_date

\* lines 586-593: the header of an extended block
ExtendedHeader(early, track_length, match_offset, columns) ==
    write_track_line(early, match_offset, track_length + match_offset,
                     columns).track_line_date

\* one line of the current file: lines 545-608
CurrLine(ps, line, records, columns) ==
    IF line.kind = "start" THEN ReadOrRaise(ps, line)
    ELSE IF ps.fresh THEN [ps EXCEPT !.outcome = "UnboundLocalError"]
    ELSE IF ps.line_of_traj > ps.track_length THEN ps
    ELSE IF IsTruncated(line) THEN [ps EXCEPT !.outcome = "IndexError"]
    ELSE IF ps.line_of_traj = 0
         THEN LET hits == {k \in 1..Len(records) : BlockMatches(ps, line, records[k].late)}
              IN  IF hits = {}
                  THEN [ps EXCEPT !.out = @ \o <<ps.line_header, line>>,
                                  !.line_of_traj = 1]
                  ELSE LET rec == records[CHOOSE k \in hits : \A q \in hits : q <= k]
                       IN  IF rec.method = "extend"
                           THEN LET w == write_track_line(rec.early, rec.offset,
                                             ps.track_length + rec.offset, columns)
                                    h == ExtendedHeader(rec.early, ps.track_length,
                                                        rec.offset, columns)
                                IN  [ps EXCEPT !.matching_track = TRUE,
                                               !.line_header = h,
                                               !.out = (@ \o <<h>>) \o w.track_lines
                                                          \o <<line>>,
                                               !.line_of_traj = 1]
                           ELSE [ps EXCEPT !.matching_track = TRUE,
                                           !.out = @ \o <<ps.line_header, line>>,
                                           !.line_of_traj = 1]
    ELSE [ps EXCEPT !.out = Append(@, line), !.line_of_traj = @ + 1]

\* for line in file_input, until a line raises
RECURSIVE PrevPass(_, _, _, _)
PrevPass(ps, lines, k, records) ==
    IF k > Len(lines) \/ ps.outcome # "ok" THEN ps
    ELSE PrevPass(PrevLine(ps, lines[k], records), lines, k + 1, records)

RECURSIVE CurrPass(_, _, _, _, _)
CurrPass(ps, lines, k, records, columns) ==
    IF k > Len(lines) \/ ps.outcome # "ok" THEN ps
    ELSE CurrPass(CurrLine(ps, lines[k], records, columns), lines, k + 1, records,
                  columns)

Absent == [exists |-> FALSE, lines |-> <<>>]

File(lines) == [exists |-> TRUE, lines |-> lines]

\* remove_duplicates_from_track_files on the four paths of the file system f:
\* the file system after the call and how the call ended.  open(path, "w")
\* creates or truncates the output before the first line is read, and what
\* was written stays when a line raises.
remove_duplicates_from_track_files(f, records, columns) ==
    IF Len(records) = 0
    THEN [fs |-> [f EXCEPT !.Tm1_adjust = f.Tm1], outcome |-> "ok"]
    ELSE LET p1 == PrevPass(PassStart, f.Tm1.lines, 1, records)
             f1 == [f EXCEPT !.Tm1_adjust = File(p1.out)]
         IN  IF p1.outcome # "ok" THEN [fs |-> f1, outcome |-> p1.outcome]
             ELSE LET p2 == CurrPass(PassStart, f.T.lines, 1, records, columns)
                  IN  [fs |-> [f1 EXCEPT !.T_adjust = File(p2.out)],
                       outcome |-> p2.outcome]

(***************************************************************************)
(* One pair of adjacent windows as a state machine: the tracker has        *)
(* written both windows' track files; the overlap records are found for    *)
(* the current window's storms in order; the merger rewrites the files.    *)
(***************************************************************************)
\* the block of every track of the grid in a tracker's file
BlockOf ==
    [epoch \in Epochs, id \in TrackIds(Paths, 0) |-> TrackerBlock(TrackOf[epoch, id])]

\* The previous window's tracker found one or two of the tracks on paths A
\* and F; the current window opens at step 1 and its tracker found one or
\* two of the tracks on path A.
MergeInit ==
    /\ \E epoch \in Epochs, ps \in IdLists(TrackIds({"A", "F"}, 0)),
          cs \in IdLists(TrackIds({"A"}, 1)) :
          /\ storms_p = [k \in 1..Len(ps) |-> TrackOf[epoch, ps[k]]]
          /\ storms_c = [k \in 1..Len(cs) |-> TrackOf[epoch, cs[k]]]
          /\ fs = [Tm1 |-> File(IF Len(ps) = 1 THEN BlockOf[epoch, ps[1]]
                                ELSE BlockOf[epoch, ps[1]] \o BlockOf[epoch, ps[2]]),
                   T |-> File(IF Len(cs) = 1 THEN BlockOf[epoch, cs[1]]
                              ELSE BlockOf[epoch, cs[1]] \o BlockOf[epoch, cs[2]]),
                   Tm1_adjust |-> Absent, T_adjust |-> Absent]
    /\ storms_match = <<>>
    /\ mpc = "detect"
    /\ tcall = NoCall
    /\ scall = NoCall
    /\ GapIdle

\* a call that consumes the points it has read (storm[key].pop(0))
StormsConsumedByCall(storms) ==
    [k \in 1..Len(storms) |->
        [storms[k] EXCEPT !.lon = Tail(@), !.lat = Tail(@), !.year = Tail(@),
                          !.month = Tail(@), !.day = Tail(@), !.hour = Tail(@)]]

\* The storm dictionaries of a list after the detector or the merger has been
\* called with them: _storm_dates, storms_overlap_in_time,
\* storm_overlap_in_space, write_track_line and
\* remove_duplicates_from_track_files only read storm[key] and storm[key][it];
\* none assigns to, appends to or deletes from a storm, and a record's early
\* and late are references to the storms passed in (lines 368-369).
StormsAfterCall(storms) == storms

\* the overlap records of the current storms from index k on, in order
RECURSIVE OverlapRecords(_, _, _)
OverlapRecords(cs, ps, k) ==
    IF k > Len(cs) THEN <<>>
    ELSE LET r == storm_overlap_in_space(cs[k], storms_overlap_in_time(cs[k], ps))
         IN  (IF r = None THEN <<>> ELSE <<r>>) \o OverlapRecords(cs, ps, k + 1)

\* The caller runs the detector for every storm of the current window.
FindOverlaps ==
    /\ mpc = "detect"
    /\ storms_match' = OverlapRecords(storms_c, storms_p, 1)
    /\ storms_p' = StormsAfterCall(storms_p)
    /\ storms_c' = StormsAfterCall(storms_c)
    /\ mpc' = "merge"
    /\ UNCHANGED <<fs, tcall, scall, gapVars>>

\* The caller runs remove_duplicates_from_track_files on the two files.
RemoveDuplicatesFromTrackFiles ==
    /\ mpc = "merge"
    /\ LET r == remove_duplicates_from_track_files(fs, storms_match, VariableColumns)
       IN  /\ fs' = r.fs
           /\ mpc' = IF r.outcome = "ok" THEN "done" ELSE "raised"
    /\ storms_p' = StormsAfterCall(storms_p)
    /\ storms_c' = StormsAfterCall(storms_c)
    /\ UNCHANGED <<storms_match, tcall, scall, gapVars>>

MergeNext == FindOverlaps \/ RemoveDuplicatesFromTrackFiles

SpecMerge == MergeInit /\ [][MergeNext]_vars

(***************************************************************************)
(* The same pipeline on files that may be damaged and with output paths    *)
(* that may hold the output of an earlier run.                             *)
(***************************************************************************)
\* lines with line k cut short (k = 0: the file is whole)
Damage(lines, k) ==
    IF k = 0 THEN lines
    ELSE [lines EXCEPT ![k] = IF @.kind = "start" THEN TruncatedHeader
                              ELSE TruncatedPoint]

\* what an output path may hold before the call: nothing, or an earlier output
EarlierOutputs == {Absent, File(BlockOf[<<2000, 1, 30, 0>>, <<"F", 0, 1>>])}

\* The previous window holds one or two tracks of path A, the current window
\* one; one line of one of the two files may be cut short.
MergeFailInit ==
    /\ \E ps \in IdLists(TrackIds({"A"}, 0)), c \in TrackIds({"A"}, 1),
          which \in {"Tm1", "T"}, k \in 0..(2 * (MaxT + 2)),
          o1 \in EarlierOutputs, o2 \in EarlierOutputs :
          LET epoch == <<2000, 1, 30, 0>>
              prev == IF Len(ps) = 1 THEN BlockOf[epoch, ps[1]]
                      ELSE BlockOf[epoch, ps[1]] \o BlockOf[epoch, ps[2]]
              curr == BlockOf[epoch, c]
          IN  /\ k <= Len(IF which = "Tm1" THEN prev ELSE curr)
              /\ (k = 0 => which = "Tm1")
              /\ storms_p = [j \in 1..Len(ps) |-> TrackOf[epoch, ps[j]]]
              /\ storms_c = <<TrackOf[epoch, c]>>
              /\ fs = [Tm1 |-> File(IF which = "Tm1" THEN Damage(prev, k) ELSE prev),
                       T |-> File(IF which = "T" THEN Damage(curr, k) ELSE curr),
                       Tm1_adjust |-> o1, T_adjust |-> o2]
    /\ storms_match = <<>>
    /\ mpc = "detect"
    /\ tcall = NoCall
    /\ scall = NoCall
    /\ GapIdle

SpecMergeFail == MergeFailInit /\ [][MergeNext]_vars

(***************************************************************************)
(* Claims about the track-file merger (checked under SpecMerge).           *)
(***************************************************************************)
Merged == mpc = "done"

\* the positions of the header lines of a file, and its blocks in order
HeaderAt(lines) == {k \in 1..Len(lines) : lines[k].kind = "start"}

BlockCount(lines) == Cardinality(HeaderAt(lines))

\* the position of the j-th header
NthHeader(lines, j) ==
    CHOOSE k \in HeaderAt(lines) : Cardinality({q \in HeaderAt(lines) : q <= k}) = j

\* the j-th block: its header and the lines up to the next header
Block(lines, j) ==
    LET from == NthHeader(lines, j)
        to == IF j < BlockCount(lines) THEN NthHeader(lines, j + 1) - 1 ELSE Len(lines)
    IN  SubSeq(lines, from, to)

\* (start date, point count, first-point lon, first-point lat) of a block
\* as read from its lines, and of a storm
BlockKey(b) ==
    <<IntOf(b[1].year), IntOf(b[1].month), IntOf(b[1].day), IntOf(b[1].hour),
      IntOf(b[1].count), RatInt(b[2].lon), RatInt(b[2].lat)>>

StormKey(st) ==
    <<st.year[1], st.month[1], st.day[1], st.hour[1], st.length, st.lon[1], st.lat[1]>>

EarlyKeys == {StormKey(storms_match[k].early) : k \in 1..Len(storms_match)}

\* the blocks of a file from block j on, without those whose key is in drop
RECURSIVE KeepBlocks(_, _, _)
KeepBlocks(lines, j, drop) ==
    IF j > BlockCount(lines) THEN <<>>
    ELSE (IF BlockKey(Block(lines, j)) \in drop THEN <<>> ELSE Block(lines, j))
            \o KeepBlocks(lines, j + 1, drop)

\* C1: with an empty list of overlap records both output files are produced
\* and each is line for line its input file.
C1_NoOverlapRoundTrip ==
    (Merged /\ storms_match = <<>>) =>
        /\ fs.Tm1_adjust.exists /\ fs.Tm1_adjust.lines = fs.Tm1.lines
        /\ fs.T_adjust.exists /\ fs.T_adjust.lines = fs.T.lines

\* the number of points of p before the first point of c
LeadIn(p, c) ==
    Cardinality({i \in 1..Len(p.year) : Earlier(DateTuple(p, i), DateTuple(c, 1))})

\* C9: when the early storm of a record starts k >= 1 steps before its late
\* storm (and holds the late storm's first date), the record has method extend
\* and offset k, and the late storm's block in the current output file is a
\* header with point count original + k, then k lead-in lines formatted from
\* the early storm's points 0 .. k-1, then the original point lines unchanged.
C9_ExtendEndToEnd ==
    Merged =>
        \A n \in 1..Len(storms_match) :
            LET r == storms_match[n]
                k == LeadIn(r.early, r.late)
            IN  (k >= 1 /\ DateTuple(r.late, 1) \in DateSet(r.early)) =>
                  /\ r.method = "extend"
                  /\ r.offset = k
                  /\ \A j \in 1..Len(storms_c) :
                        storms_c[j] = r.late =>
                          LET old == Block(fs.T.lines, j)
                              new == Block(fs.T_adjust.lines, j)
                          IN  /\ Len(new) = Len(old) + k
                              /\ new[1].kind = "start"
                              /\ IntOf(new[1].count) = IntOf(old[1].count) + k
                              /\ \A i \in 1..k :
                                    new[1 + i] = PointLine("write_track_line", r.early,
                                                           i, VariableColumns)
                              /\ SubSeq(new, k + 2, Len(new)) = SubSeq(old, 2, Len(old))

\* C9 witness: an early storm that starts three steps before the late storm
C9_Witness ==
    /\ Merged
    /\ \E n \in 1..Len(storms_match) :
          /\ LeadIn(storms_match[n].early, storms_match[n].late) = 3
          /\ storms_match[n].method = "extend"
          /\ BlockCount(fs.T_adjust.lines) = Len(storms_c)

\* C10: with a non-empty list of records, the previous output file is the
\* previous input file without the blocks whose (start date, point count,
\* first-point lon, first-point lat) is that of some record's early storm;
\* all other blocks are written whole, unchanged and in order.
C10_PreviousPass ==
    (Merged /\ storms_match # <<>>) =>
        /\ fs.Tm1_adjust.exists
        /\ fs.Tm1_adjust.lines = KeepBlocks(fs.Tm1.lines, 1, EarlyKeys)

\* C10 witness: of two previous blocks the second is dropped, the first kept
C10_Witness ==
    /\ Merged
    /\ storms_match # <<>>
    /\ BlockCount(fs.Tm1.lines) = 2
    /\ fs.Tm1_adjust.lines = Block(fs.Tm1.lines, 1)
    /\ BlockKey(Block(fs.Tm1.lines, 2)) \in EarlyKeys

\* the records whose late storm has the key of block b
LateHits(b) == {n \in 1..Len(storms_match) : StormKey(storms_match[n].late) = BlockKey(b)}

\* C11: every block of the current file that matches no record's late storm,
\* or only records of method remove or extend_odd, is in the current output
\* file with its header and all its point lines unchanged, and the blocks of
\* the output are in the input order.
C11_NonExtendedUntouched ==
    Merged =>
        /\ fs.T_adjust.exists
        /\ BlockCount(fs.T_adjust.lines) = BlockCount(fs.T.lines)
        /\ \A j \in 1..BlockCount(fs.T.lines) :
              LET b == Block(fs.T.lines, j)
              IN  (\A n \in LateHits(b) : storms_match[n].method \in {"remove", "extend_odd"})
                    => Block(fs.T_adjust.lines, j) = b

\* C12: when the merger fails part-way on a line that does not tokenize, no
\* output path holds a partly written file and no earlier output has been
\* replaced or truncated: both output paths are as they were before the call.
C12_AllOrNothing ==
    [][mpc' = "raised" =>
          (fs'.Tm1_adjust = fs.Tm1_adjust /\ fs'.T_adjust = fs.T_adjust)]_vars

WellFormed(lines) ==
    lines # <<>> =>
        /\ lines[1].kind = "start"
        /\ \A j \in 1..BlockCount(lines) :
              LET blk == Block(lines, j)
              IN  /\ IntOf(blk[1].count) = Len(blk) - 1
                  /\ \A i \in 2..Len(blk) : blk[i].kind = "point"

\* C17: with well-formed input files and records from storm_overlap_in_space,
\* in each output file the merger wrote every header's point count is the
\* number of point lines up to the next header; an extend record's offset is
\* at most the length of its early storm.
C17_WellFormedPreserved ==
    (Merged /\ WellFormed(fs.Tm1.lines) /\ WellFormed(fs.T.lines)) =>
        /\ fs.Tm1_adjust.exists => WellFormed(fs.Tm1_adjust.lines)
        /\ fs.T_adjust.exists => WellFormed(fs.T_adjust.lines)
        /\ \A n \in 1..Len(storms_match) :
              storms_match[n].method = "extend" =>
                  storms_match[n].offset <= storms_match[n].early.length

\* C17 witness: both outputs hold blocks, one of them extended by two lines
C17_Witness ==
    /\ Merged
    /\ WellFormed(fs.Tm1.lines) /\ WellFormed(fs.T.lines)
    /\ fs.Tm1_adjust.exists /\ fs.Tm1_adjust.lines # <<>>
    /\ fs.T_adjust.exists
    /\ \E n \in 1..Len(storms_match) :
          /\ storms_match[n].method = "extend"
          /\ storms_match[n].offset = 2
    /\ Len(fs.T_adjust.lines) = Len(fs.T.lines) + 2

\* the date of a point line, as read from its tokens
LineDate(line) == <<IntOf(line.year), IntOf(line.month), IntOf(line.day), IntOf(line.hour)>>

\* the point lines of a block are one 12-hour step apart, in increasing order
StepsApart(blk) ==
    \A i \in 2..(Len(blk) - 1) :
        /\ LineDate(blk[i + 1]) = AdvanceTime(TrackCube, LineDate(blk[i]), 12, 1)
        /\ Earlier(LineDate(blk[i]), LineDate(blk[i + 1]))

\* C18: in every record of two gap-free storms with the same time step one of
\* time_c and time_p is 0; in an extend record time_c is 0, the early storm's
\* point at index offset has the date of the late storm's first point, and
\* the extended block in the current output file has strictly increasing
\* dates exactly one time step apart.
C18_OverlapStartsAtAnEnd ==
    Merged =>
        \A n \in 1..Len(storms_match) :
            LET r == storms_match[n]
            IN  /\ r.time_c = 0 \/ r.time_p = 0
                /\ r.method = "extend" =>
                      /\ r.time_c = 0
                      /\ DateTuple(r.early, r.offset + 1) = DateTuple(r.late, 1)
                      /\ \A j \in 1..Len(storms_c) :
                            storms_c[j] = r.late => StepsApart(Block(fs.T_adjust.lines, j))

\* the dates of the point lines of a block
BlockDates(blk) == {LineDate(blk[i]) : i \in 2..Len(blk)}

\* no block of the file has the key of the storm
DroppedFrom(lines, st) ==
    \A j \in 1..BlockCount(lines) : BlockKey(Block(lines, j)) # StormKey(st)

\* C19: for every record (of any method) whose early block is dropped from
\* the previous output file, every date of the early storm is among the dates
\* of the late storm's block in the current output file.
C19_NoTrackedTimeLost ==
    Merged =>
        \A n \in 1..Len(storms_match) :
            LET r == storms_match[n]
            IN  DroppedFrom(fs.Tm1_adjust.lines, r.early) =>
                  \A j \in 1..Len(storms_c) :
                      storms_c[j] = r.late =>
                          DateSet(r.early) \subseteq BlockDates(Block(fs.T_adjust.lines, j))

(***************************************************************************)
(* Further claims about the gap filler (checked under SpecGap).            *)
(***************************************************************************)
\* every per-point array of a storm
PerPointArrays(st) ==
    <<st.lon, st.lat, st.grid_x, st.grid_y, st.step, st.track_id,
      st.year, st.month, st.day, st.hour, st.slp, st.rprof>>

ArraysMatchLength(st) ==
    \A k \in 1..Len(PerPointArrays(st)) : Len(PerPointArrays(st)[k]) = st.length

\* C13: when the gap filler returns on a storm whose per-point arrays all had
\* `length` entries, all per-point arrays (positions, grid indices, step,
\* track_id, date parts, auxiliary variables) again have one common number of
\* entries and that number is the storm's `length`.
C13_ArraysMatchLength ==
    (FillerCalled /\ pc = "returned" /\ ArraysMatchLength(call.pre)) =>
        ArraysMatchLength(storm)

\* the days of the years from..(to - 1), and of the months before `month`
RECURSIVE DaysOfMonths(_, _, _)
DaysOfMonths(calendar, year, month) ==
    IF month <= 1 THEN 0
    ELSE DaysInMonth(calendar, year, month - 1) + DaysOfMonths(calendar, year, month - 1)

RECURSIVE DaysOfYears(_, _, _)
DaysOfYears(calendar, from, to) ==
    IF to <= from THEN 0
    ELSE DaysOfMonths(calendar, to - 1, 13) + DaysOfYears(calendar, from, to - 1)

\* hours from 1 January 2000, 00:00 to the date t = <<year, month, day, hour>>
HoursOf(calendar, t) ==
    24 * (DaysOfYears(calendar, 2000, t[1]) + DaysOfMonths(calendar, t[1], t[2])
            + t[3] - 1) + t[4]

\* t is a date of the calendar
ValidDate(calendar, t) ==
    /\ t[2] \in 1..12
    /\ t[3] \in 1..DaysInMonth(calendar, t[1], t[2])
    /\ t[4] \in 0..23

DateAt(st, k) == <<st.year[k], st.month[k], st.day[k], st.hour[k]>>

\* C15: the date of the g-th synthetic point (1 <= g < gap_length) is a date of
\* the cube's calendar and lies exactly g * time_period hours after the storm's
\* last date before the call, days, months and years rolling over.
C15_SyntheticDates ==
    (FillerCalled /\ pc = "returned") =>
        \A g \in 1..(call.gap_length - 1) :
            LET n == Len(call.pre.year)
            IN  /\ ValidDate(cube.calendar, DateAt(storm, n + g))
                /\ HoursOf(cube.calendar, DateAt(storm, n + g))
                      = HoursOf(cube.calendar, DateAt(call.pre, n)) + g * call.time_period

\* C15 witness: two synthetic points, the second in a later year than the
\* storm's last point before the call (30 December rolls into 1 January in
\* the 360_day calendar)
C15_Witness ==
    /\ FillerCalled
    /\ pc = "returned"
    /\ call.gap_length = 3
    /\ cube.calendar = "360_day"
    /\ storm.year[Len(call.pre.year) + 2] = Last(call.pre.year) + 1
    /\ storm.day[Len(call.pre.year) + 2] = 1

\* last + g * (new - last) / gap_length, the linear interpolation at point g
Interpolated(last, new, g, gap_length) == Rat(last * gap_length + g * (new - last), gap_length)

\* C16: the grid indices of the g-th synthetic point (1 <= g < gap_length)
\* are the linear interpolation between the last point and the new point:
\* j = trunc(j_last + g * (j_new - j_last) / gap_length) and
\* i = trunc((i_last + g * (i_new - i_last) / gap_length) mod nx), i in [0, nx).
C16_GridIndicesLinear ==
    (FillerCalled /\ pc = "returned") =>
        \A g \in 1..(call.gap_length - 1) :
            LET n == Len(call.pre.grid_x)
                j == Interpolated(call.pre.grid_y[n], call.grid_y, g, call.gap_length)
                i == Interpolated(call.pre.grid_x[n], call.grid_x, g, call.gap_length)
            IN  /\ storm.grid_y[n + g] = RatTrunc(j)
                /\ storm.grid_x[n + g] = RatTrunc(RatMod(i, cube.nx))
                /\ storm.grid_x[n + g] \in 0..(cube.nx - 1)

====
